---------------------------- MODULE Spec2Model ----------------------------
(***************************************************************************)
(* A model of libsovtoken: the exported payment handlers of api/mod.rs,    *)
(* the callback registry of api/mod.rs (mod callbacks) and the Input       *)
(* value model of logic/input.rs.                                          *)
(*                                                                         *)
(* Six specifications share the variables:                                 *)
(*   Spec          one call of an exported handler, its callback and the   *)
(*                 worker thread of create_payment_address_handler;        *)
(*   SpecRegistry  threads registering continuations with                  *)
(*                 closure_to_cb_ec and the host calling them back;        *)
(*   SpecInput     serialization and deserialization of Input;             *)
(*   SpecConfig    serialization and deserialization of InputConfig, and   *)
(*                 build_payment_req_handler on such an inputs_json;       *)
(*   SpecInit      sovtoken_init, its channel and the host's callback;     *)
(*   SpecCrypto    the calls of CryptoSdk to the host's crypto api.        *)
(***************************************************************************)
EXTENDS Integers, Sequences, FiniteSets, TLC

VARIABLES
    \* ---- one handler call (Spec) ----
    pc,          \* position of the caller thread: idle, called, returning, returned
    call,        \* the call's arguments: handler, command_handle, cb, args
    ret,         \* the handler's synchronous return value
    cbLog,       \* invocations of the host callback, in order
    worker,      \* the thread spawned by create_payment_address_handler
    hostErr,     \* the outcome of the host's key creation inside the worker
    \* ---- callback registry (SpecRegistry) ----
    IDS_COUNTER, \* the AtomicUsize counter
    CALLBACKS,   \* the map command_handle -> closure
    mutex,       \* the registry mutex: holder and poisoned flag
    tpc,         \* position of every registry thread
    tloc,        \* locals of every registry thread
    handles,     \* the handles get_next_id returned, in allocation order
    ran,         \* how often every continuation has run
    \* ---- Input value model (SpecInput) ----
    ipc,         \* position of the (de)serialization run
    json,        \* the JSON value handed to the deserializer
    input,       \* the Input built by Input::new
    parsed,      \* the deserializer's result
    emitted,     \* the serializer's output
    reemitted,   \* the serializer's output for the value parsed from `emitted`
    \* ---- InputConfig value model (SpecConfig) ----
    cpc,         \* position of the InputConfig run
    cfgJson,     \* the JSON handed to the InputConfig deserializer
    cfgParsed,   \* the InputConfig deserializer's result
    cfg,         \* the InputConfig built by the caller
    cfgEmitted,  \* the serializer's output for cfg
    payOutcome,  \* what build_payment_req_handler did with cfgJson as inputs_json
    \* ---- sovtoken_init (SpecInit) ----
    spc,         \* position of the thread in sovtoken_init
    receiver,    \* the channel's receiver: alive or dropped
    sent,        \* the codes sent on the channel
    initRet,     \* the value sovtoken_init returned
    hpc,         \* position of the host's callback thread
    hloc,        \* locals of the host's callback thread
    \* ---- CryptoSdk (SpecCrypto) ----
    kpc,         \* position of the caller of CryptoSdk
    kcfg,        \* the PaymentAddressConfig and wallet handle of the caller
    hostCalls,   \* the calls the host's crypto api has received
    kret,        \* what the CryptoSdk functions returned
    signDone,    \* the host's completions of the signing: how many, and the last
    signCont     \* the calls of the continuation of indy_crypto_sign: likewise

apiVars == <<pc, call, ret, cbLog, worker, hostErr>>
regVars == <<IDS_COUNTER, CALLBACKS, mutex, tpc, tloc, handles, ran>>
inputVars == <<ipc, json, input, parsed, emitted, reemitted>>
cfgVars == <<cpc, cfgJson, cfgParsed, cfg, cfgEmitted, payOutcome>>
initVars == <<spc, receiver, sent, initRet, hpc, hloc>>
cryptoVars == <<kpc, kcfg, hostCalls, kret, signDone, signCont>>
vars == <<pc, call, ret, cbLog, worker, hostErr,
          IDS_COUNTER, CALLBACKS, mutex, tpc, tloc, handles, ran,
          ipc, json, input, parsed, emitted, reemitted,
          cpc, cfgJson, cfgParsed, cfg, cfgEmitted, payOutcome,
          spc, receiver, sent, initRet, hpc, hloc,
          kpc, kcfg, hostCalls, kret, signDone, signCont>>

None == "none"

(***************************************************************************)
(* ErrorCode: the host's enum.  The handlers use Success,                  *)
(* CommonInvalidParam2..5 and CommonInvalidStructure; the other two are    *)
(* codes the host itself can report.                                       *)
(***************************************************************************)
InvalidParamCodes ==
    {"CommonInvalidParam2", "CommonInvalidParam3",
     "CommonInvalidParam4", "CommonInvalidParam5"}

HostFailureCodes == {"WalletInvalidHandle", "CommonInvalidState"}

ErrorCode ==
    {"Success", "CommonInvalidStructure"} \cup InvalidParamCodes \cup HostFailureCodes

(***************************************************************************)
(* Pointers handed across the ABI.  A *const c_char argument is null, or   *)
(* points at text that is not JSON of the expected schema, or points at    *)
(* valid text.  Arguments that are not JSON are null or valid.             *)
(***************************************************************************)
NullPtr == "null"
NullCb == "null_cb"
HostCb == "host_cb"

Handlers ==
    {"create_payment_address", "add_request_fees", "parse_response_with_fees",
     "build_payment_req", "parse_payment_response", "build_get_utxo_request",
     "parse_get_utxo_response", "build_set_txn_fees", "build_get_txn_fees",
     "parse_get_txn_fees_response", "build_mint_txn"}

JsonParams ==
    {"config_str", "req_json", "resp_json", "inputs_json", "outputs_json", "fees_json"}

Params(h) ==
    CASE h = "create_payment_address" -> {"config_str"}
      [] h = "add_request_fees" ->
            {"submitter_did", "req_json", "inputs_json", "outputs_json"}
      [] h = "parse_response_with_fees" -> {"req_json"}
      [] h = "build_payment_req" -> {"submitter_did", "inputs_json", "outputs_json"}
      [] h = "parse_payment_response" -> {"resp_json"}
      [] h = "build_get_utxo_request" -> {"submitter_did", "payment_address"}
      [] h = "parse_get_utxo_response" -> {"resp_json"}
      [] h = "build_set_txn_fees" -> {"submitter_did", "fees_json"}
      [] h = "build_get_txn_fees" -> {"submitter_did"}
      [] h = "parse_get_txn_fees_response" -> {"resp_json"}
      [] h = "build_mint_txn" -> {"submitter_did", "outputs_json"}

AddressParams == {"payment_address"}

PtrVals(p) ==
    IF p \in JsonParams THEN {NullPtr, "bad_json", "valid"}
    ELSE IF p \in AddressParams THEN {NullPtr, "bad_address", "valid"}
    ELSE {NullPtr, "valid"}

ArgSets(h) == {a \in [Params(h) -> {NullPtr, "bad_json", "bad_address", "valid"}] :
                  \A p \in Params(h) : a[p] \in PtrVals(p)}

CommandHandles == {11, 12}

\* Result<T, ErrorCode>
Ok(v) == [ok |-> TRUE, val |-> v, err |-> "Success"]
Err(e) == [ok |-> FALSE, val |-> NullPtr, err |-> e]

\* What a handler's body does: the code it returns, the callbacks it invokes
\* before returning, and whether it spawned the worker thread.
Outcome(r, cbs, spawn) == [ret |-> r, cbs |-> cbs, spawn |-> spawn]

CbInvocation(command_handle, err, ptr, by) ==
    [command_handle |-> command_handle, err |-> err, ptr |-> ptr, by |-> by]


(***************************************************************************)
(* utils::ffi_support and utils::json_conversion are not among the source  *)
(* files; they are modelled from the ABI contract: a null pointer converts *)
(* to no string, and text parses exactly when it matches the schema.       *)
(* deserialize_from_char_ptr is generic in the pointer alone, so the code  *)
(* it reports for a null pointer is one fixed but unknown code, nullErr.   *)
(***************************************************************************)
NullPtrCodes == InvalidParamCodes \cup {"CommonInvalidStructure"}

string_from_char_ptr(p) == IF p = NullPtr THEN None ELSE p

str_from_char_ptr(p) == IF p = NullPtr THEN None ELSE p

from_json(s) == IF s = "valid" THEN Ok(s) ELSE Err("CommonInvalidStructure")

deserialize_from_char_ptr(p, nullErr) ==
    IF string_from_char_ptr(p) = None THEN Err(nullErr)
    ELSE from_json(string_from_char_ptr(p))

(***************************************************************************)
(* handle_result, the closure of build_set_txn_fees_handler: the error     *)
(* code of the result goes to the callback, when there is one, together    *)
(* with the result pointer or null, and is then returned.                  *)
(***************************************************************************)
handle_result_success_to_cb(command_handle, cb, result) ==
    LET result_error_code == IF result.ok THEN "Success" ELSE result.err
    IN  Outcome(result_error_code,
                IF cb # NullCb
                THEN <<CbInvocation(command_handle, "Success", result.val, "handler")>>
                ELSE <<>>,
                FALSE)

handle_result(command_handle, cb, result) ==
    LET result_error_code == IF result.ok THEN "Success" ELSE result.err
        json_pointer == IF result.ok THEN result.val ELSE NullPtr
    IN  Outcome(result_error_code,
                IF cb # NullCb
                THEN <<CbInvocation(command_handle, result_error_code,
                                    json_pointer, "handler")>>
                ELSE <<>>,
                FALSE)

\* The macro api_result_handler! is not among the source files; it is
\* modelled as the closure build_set_txn_fees_handler spells out.
api_result_handler(command_handle, cb, result) ==
    handle_result(command_handle, cb, result)

\* Early returns that bypass handle_result invoke no callback.
ReturnOnly(code) == Outcome(code, <<>>, FALSE)

create_payment_address_handler_spawn_first(command_handle, a, cb) ==
    IF cb = NullCb THEN ReturnOnly("CommonInvalidParam4")
    ELSE IF a["config_str"] = NullPtr
         THEN Outcome("CommonInvalidParam2", <<>>, TRUE)
    ELSE IF string_from_char_ptr(a["config_str"]) = None
         THEN Outcome("CommonInvalidParam2", <<>>, TRUE)
    ELSE IF ~from_json(string_from_char_ptr(a["config_str"])).ok
         THEN Outcome("CommonInvalidStructure", <<>>, TRUE)
    ELSE Outcome("Success", <<>>, TRUE)

create_payment_address_handler_cb_in_handler(command_handle, a, cb) ==
    IF cb = NullCb THEN ReturnOnly("CommonInvalidParam4")
    ELSE IF string_from_char_ptr(a["config_str"]) = None
         THEN ReturnOnly("CommonInvalidParam2")
    ELSE IF ~from_json(string_from_char_ptr(a["config_str"])).ok
         THEN Outcome("CommonInvalidStructure",
                      <<CbInvocation(command_handle, "CommonInvalidStructure",
                                     NullPtr, "handler")>>, FALSE)
    ELSE Outcome("Success",
                 <<CbInvocation(command_handle, "Success", "payment_address",
                                "handler")>>, TRUE)

create_payment_address_handler(command_handle, a, cb) ==
    IF cb = NullCb THEN ReturnOnly("CommonInvalidParam4")
    ELSE IF a["config_str"] = NullPtr THEN ReturnOnly("CommonInvalidParam2")
    ELSE IF string_from_char_ptr(a["config_str"]) = None
         THEN ReturnOnly("CommonInvalidParam2")
    ELSE IF ~from_json(string_from_char_ptr(a["config_str"])).ok
         THEN ReturnOnly("CommonInvalidStructure")
    ELSE Outcome("Success", <<>>, TRUE)

add_request_fees_handler(command_handle, a, cb) == ReturnOnly("Success")

parse_response_with_fees_handler(command_handle, a, cb) == ReturnOnly("Success")

build_payment_req_handler(command_handle, a, cb, nullErr) ==
    IF cb = NullCb
    THEN api_result_handler(command_handle, cb, Err("CommonInvalidParam5"))
    ELSE IF a["submitter_did"] = NullPtr
    THEN api_result_handler(command_handle, cb, Err("CommonInvalidParam2"))
    ELSE LET outputs_config == deserialize_from_char_ptr(a["outputs_json"], nullErr)
             inputs_config == deserialize_from_char_ptr(a["inputs_json"], nullErr)
         IN  IF ~outputs_config.ok
             THEN api_result_handler(command_handle, cb, Err(outputs_config.err))
             ELSE IF ~inputs_config.ok
             THEN api_result_handler(command_handle, cb, Err(inputs_config.err))
             ELSE api_result_handler(command_handle, cb, Ok("fees_request"))

parse_payment_response_handler(command_handle, a, cb) == ReturnOnly("Success")

\* logic/config/get_utxo_config.rs
GET_UTXO == "10002"

\* GetUtxoRequest::new, get_utxo_config.rs lines 23-31: the operation
\* {address, type} wrapped by Request::new (logic::request, not among the
\* source files) into an envelope with the identifier.
GetUtxoRequest_new(address, identifier) ==
    [identifier |-> identifier,
     operation |-> [address |-> address, type |-> GET_UTXO]]

\* Lines 244-252: the body is `return ErrorCode::Success`; GetUtxoRequest
\* is not used.
build_get_utxo_request_handler(command_handle, a, cb) == ReturnOnly("Success")

parse_get_utxo_response_handler(command_handle, a, cb) == ReturnOnly("Success")

build_set_txn_fees_handler(command_handle, a, cb) ==
    IF cb = NullCb THEN ReturnOnly("CommonInvalidParam3")
    ELSE IF str_from_char_ptr(a["fees_json"]) = None
    THEN handle_result(command_handle, cb, Err("CommonInvalidParam2"))
    ELSE IF ~from_json(str_from_char_ptr(a["fees_json"])).ok
    THEN handle_result(command_handle, cb, Err("CommonInvalidStructure"))
    ELSE handle_result(command_handle, cb, Ok("set_fees_request"))

build_get_txn_fees_handler(command_handle, a, cb) == ReturnOnly("Success")

parse_get_txn_fees_response_handler(command_handle, a, cb) == ReturnOnly("Success")

build_mint_txn_handler(command_handle, a, cb, nullErr) ==
    IF cb = NullCb
    THEN api_result_handler(command_handle, cb, Err("CommonInvalidParam5"))
    ELSE LET outputs_config == deserialize_from_char_ptr(a["outputs_json"], nullErr)
         IN  IF ~outputs_config.ok
             THEN api_result_handler(command_handle, cb, Err(outputs_config.err))
             ELSE api_result_handler(command_handle, cb, Ok("mint_request"))

(***************************************************************************)
(* One call of an exported handler.                                        *)
(***************************************************************************)
NoCall == [h |-> None, command_handle |-> 0, cb |-> NullCb, args |-> <<>>]

\* The host calls handler h.
Call ==
    /\ pc = "idle"
    /\ \E h \in Handlers, ch \in CommandHandles, cb \in {NullCb, HostCb} :
         \E a \in ArgSets(h) :
            call' = [h |-> h, command_handle |-> ch, cb |-> cb, args |-> a]
    /\ pc' = "called"
    /\ UNCHANGED <<ret, cbLog, worker, hostErr>>
    /\ UNCHANGED <<regVars, inputVars, cfgVars, initVars, cryptoVars>>

\* The handler's body runs on the caller thread up to its return statement:
\* the callbacks it invokes are invoked before the handler returns.
Run(o) ==
    /\ pc = "called"
    /\ pc' = "returning"
    /\ ret' = o.ret
    /\ cbLog' = cbLog \o o.cbs
    /\ worker' = IF o.spawn THEN "spawned" ELSE worker
    /\ UNCHANGED <<call, hostErr>>
    /\ UNCHANGED <<regVars, inputVars, cfgVars, initVars, cryptoVars>>

CreatePaymentAddress ==
    /\ call.h = "create_payment_address"
    /\ Run(create_payment_address_handler(call.command_handle, call.args, call.cb))

AddRequestFees ==
    /\ call.h = "add_request_fees"
    /\ Run(add_request_fees_handler(call.command_handle, call.args, call.cb))

ParseResponseWithFees ==
    /\ call.h = "parse_response_with_fees"
    /\ Run(parse_response_with_fees_handler(call.command_handle, call.args, call.cb))

BuildPaymentReq ==
    \E nullErr \in NullPtrCodes :
        /\ call.h = "build_payment_req"
        /\ Run(build_payment_req_handler(call.command_handle, call.args, call.cb, nullErr))

ParsePaymentResponse ==
    /\ call.h = "parse_payment_response"
    /\ Run(parse_payment_response_handler(call.command_handle, call.args, call.cb))

BuildGetUtxoRequest ==
    /\ call.h = "build_get_utxo_request"
    /\ Run(build_get_utxo_request_handler(call.command_handle, call.args, call.cb))

ParseGetUtxoResponse ==
    /\ call.h = "parse_get_utxo_response"
    /\ Run(parse_get_utxo_response_handler(call.command_handle, call.args, call.cb))

BuildSetTxnFees ==
    /\ call.h = "build_set_txn_fees"
    /\ Run(build_set_txn_fees_handler(call.command_handle, call.args, call.cb))

BuildGetTxnFees ==
    /\ call.h = "build_get_txn_fees"
    /\ Run(build_get_txn_fees_handler(call.command_handle, call.args, call.cb))

ParseGetTxnFeesResponse ==
    /\ call.h = "parse_get_txn_fees_response"
    /\ Run(parse_get_txn_fees_response_handler(call.command_handle, call.args, call.cb))

BuildMintTxn ==
    \E nullErr \in NullPtrCodes :
        /\ call.h = "build_mint_txn"
        /\ Run(build_mint_txn_handler(call.command_handle, call.args, call.cb, nullErr))

\* The handler returns its synchronous error code to the host.
Return ==
    /\ pc = "returning"
    /\ pc' = "returned"
    /\ UNCHANGED <<call, ret, cbLog, worker, hostErr>>
    /\ UNCHANGED <<regVars, inputVars, cfgVars, initVars, cryptoVars>>

(***************************************************************************)
(* The worker thread of create_payment_address_handler.  It runs           *)
(* concurrently with the caller thread from the moment it is spawned.      *)
(* CreatePaymentHandler::create_payment_address (logic::payments) is not   *)
(* among the source files: the host's key creation ends with some code,    *)
(* and when it fails the call either still yields a string or panics.      *)
(***************************************************************************)
HostCodes == {"Success"} \cup HostFailureCodes

WorkerCreatePaymentAddress ==
    /\ worker = "spawned"
    /\ \E e \in HostCodes :
         /\ hostErr' = e
         /\ \/ worker' = "have_address"
            \/ e # "Success" /\ worker' = "panicked"
    /\ UNCHANGED <<pc, call, ret, cbLog>>
    /\ UNCHANGED <<regVars, inputVars, cfgVars, initVars, cryptoVars>>

\* The worker hands the address to the callback, always with Success.
WorkerInvokeCb ==
    /\ worker = "have_address"
    /\ IF call.cb # NullCb
       THEN /\ cbLog' = Append(cbLog, CbInvocation(call.command_handle, "Success",
                                                   "payment_address", "worker"))
            /\ worker' = "done"
       ELSE /\ worker' = "panicked"
            /\ UNCHANGED cbLog
    /\ UNCHANGED <<pc, call, ret, hostErr>>
    /\ UNCHANGED <<regVars, inputVars, cfgVars, initVars, cryptoVars>>

NextApi ==
    \/ Call
    \/ CreatePaymentAddress
    \/ AddRequestFees
    \/ ParseResponseWithFees
    \/ BuildPaymentReq
    \/ ParsePaymentResponse
    \/ BuildGetUtxoRequest
    \/ ParseGetUtxoResponse
    \/ BuildSetTxnFees
    \/ BuildGetTxnFees
    \/ ParseGetTxnFeesResponse
    \/ BuildMintTxn
    \/ Return
    \/ WorkerCreatePaymentAddress
    \/ WorkerInvokeCb

(***************************************************************************)
(* The callback registry, mod callbacks.                                   *)
(*                                                                         *)
(* The widths of the counter (usize) and of the handle (i32) are scaled    *)
(* down to UsizeBits and HandleBits so that the truncating cast of         *)
(* get_next_id is reached within MaxAlloc allocations.                     *)
(***************************************************************************)
UsizeBits == 3
HandleBits == 2
MaxAlloc == 5

RegThreads == {"t1", "t2"}

Pow2(n) == 2 ^ n

HandleRange == (0 - Pow2(HandleBits - 1)) .. (Pow2(HandleBits - 1) - 1)

Closures == 1 .. MaxAlloc

\* `x as i32`: truncation to the low bits, read as two's complement.
as_i32(x) ==
    LET m == x % Pow2(HandleBits)
    IN  IF m >= Pow2(HandleBits - 1) THEN m - Pow2(HandleBits) ELSE m

\* The value get_next_id returns when fetch_add finds the counter at `old`.
get_next_id(old) == as_i32((old + 1) % Pow2(UsizeBits))

\* HashMap::insert: a closure stored under a key that is present replaces
\* (and drops) the closure that was there.
insert_alone(callbacks, command_handle, closure) ==
    [k \in {command_handle} |-> closure]

insert(callbacks, command_handle, closure) ==
    [k \in DOMAIN callbacks \cup {command_handle} |->
        IF k = command_handle THEN closure ELSE callbacks[k]]

\* HashMap::remove: the entry leaves the map.
remove_keeps_entry(callbacks, command_handle) == callbacks

remove(callbacks, command_handle) ==
    [k \in DOMAIN callbacks \ {command_handle} |-> callbacks[k]]

NoLocals == [command_handle |-> 0, closure |-> 0, err |-> None, fatal |-> None]

\* closure_to_cb_ec, line 474: get_next_id() is one atomic fetch_add.
\* The closure registered by the n-th allocation is called closure n.
GetNextId(t) ==
    /\ tpc[t] = "idle"
    /\ Len(handles) < MaxAlloc
    /\ IDS_COUNTER' = (IDS_COUNTER + 1) % Pow2(UsizeBits)
    /\ handles' = Append(handles, get_next_id(IDS_COUNTER))
    /\ tloc' = [tloc EXCEPT ![t] = [NoLocals EXCEPT
                   !.command_handle = get_next_id(IDS_COUNTER),
                   !.closure = Len(handles) + 1]]
    /\ tpc' = [tpc EXCEPT ![t] = "have_id"]
    /\ UNCHANGED <<CALLBACKS, mutex, ran>>
    /\ UNCHANGED <<apiVars, inputVars, cfgVars, initVars, cryptoVars>>

\* closure_to_cb_ec, lines 475-478: lock, insert, return (the guard drops).
\* lock().unwrap() panics when the mutex is poisoned.
Insert(t) ==
    /\ tpc[t] = "have_id"
    /\ mutex.holder = None
    /\ IF mutex.poisoned
       THEN /\ tpc' = [tpc EXCEPT ![t] = "panicked"]
            /\ tloc' = [tloc EXCEPT ![t].fatal = "poisoned"]
            /\ UNCHANGED CALLBACKS
       ELSE /\ CALLBACKS' = insert(CALLBACKS, tloc[t].command_handle, tloc[t].closure)
            /\ tpc' = [tpc EXCEPT ![t] = "idle"]
            /\ UNCHANGED tloc
    /\ UNCHANGED <<IDS_COUNTER, mutex, handles, ran>>
    /\ UNCHANGED <<apiVars, inputVars, cfgVars, initVars, cryptoVars>>

\* _callback, lines 469-470: the host calls back on thread t with some
\* handle and code.  lock().unwrap(), then remove(&command_handle).unwrap():
\* without an entry the unwrap panics, which poisons the mutex as the guard
\* unwinds; with one, the closure leaves the map and the guard stays held.
CallbackTake(t) ==
    /\ tpc[t] = "idle"
    /\ mutex.holder = None
    /\ \E command_handle \in HandleRange, err \in HostCodes :
         IF mutex.poisoned
         THEN /\ tpc' = [tpc EXCEPT ![t] = "panicked"]
              /\ tloc' = [tloc EXCEPT ![t] = [NoLocals EXCEPT
                             !.command_handle = command_handle,
                             !.err = err, !.fatal = "poisoned"]]
              /\ UNCHANGED <<CALLBACKS, mutex>>
         ELSE IF command_handle \in DOMAIN CALLBACKS
         THEN /\ CALLBACKS' = remove(CALLBACKS, command_handle)
              /\ tloc' = [tloc EXCEPT ![t] = [NoLocals EXCEPT
                             !.command_handle = command_handle,
                             !.closure = CALLBACKS[command_handle],
                             !.err = err]]
              /\ mutex' = [mutex EXCEPT !.holder = t]
              /\ tpc' = [tpc EXCEPT ![t] = "in_callback"]
         ELSE /\ tpc' = [tpc EXCEPT ![t] = "panicked"]
              /\ tloc' = [tloc EXCEPT ![t] = [NoLocals EXCEPT
                             !.command_handle = command_handle,
                             !.err = err, !.fatal = "missing_entry"]]
              /\ mutex' = [mutex EXCEPT !.poisoned = TRUE]
              /\ UNCHANGED CALLBACKS
    /\ UNCHANGED <<IDS_COUNTER, handles, ran>>
    /\ UNCHANGED <<apiVars, inputVars, cfgVars, initVars, cryptoVars>>

\* _callback, line 471: cb(err), the continuation runs.
CallbackRun(t) ==
    /\ tpc[t] = "in_callback"
    /\ ran' = [ran EXCEPT ![tloc[t].closure] = @ + 1]
    /\ tpc' = [tpc EXCEPT ![t] = "ran"]
    /\ UNCHANGED <<IDS_COUNTER, CALLBACKS, mutex, tloc, handles>>
    /\ UNCHANGED <<apiVars, inputVars, cfgVars, initVars, cryptoVars>>

\* _callback, line 472: the function returns and the guard drops.
CallbackReturn(t) ==
    /\ tpc[t] = "ran"
    /\ mutex' = [mutex EXCEPT !.holder = None]
    /\ tpc' = [tpc EXCEPT ![t] = "idle"]
    /\ UNCHANGED <<IDS_COUNTER, CALLBACKS, tloc, handles, ran>>
    /\ UNCHANGED <<apiVars, inputVars, cfgVars, initVars, cryptoVars>>

NextReg ==
    \E t \in RegThreads :
        \/ GetNextId(t)
        \/ Insert(t)
        \/ CallbackTake(t)
        \/ CallbackRun(t)
        \/ CallbackReturn(t)

(***************************************************************************)
(* The Input value model, logic/input.rs.                                  *)
(*                                                                         *)
(* JSON text is modelled by its token structure: a value has a type; an    *)
(* object is the sequence of its <<key, value>> entries in textual order.  *)
(* A string is plain text, or a TXO wire form "txo:sov:<base58check>"      *)
(* that carries the entries of the JSON object encoded in it.  An array is *)
(* the sequence of its elements, held as entries with an empty key.        *)
(***************************************************************************)
MaxFields == 3

JNull == [t |-> "null", v |-> 0, s |-> "", wire |-> FALSE, entries |-> <<>>]
JNum(n) == [JNull EXCEPT !.t = "number", !.v = n]
JBool == [JNull EXCEPT !.t = "bool"]
JArr == [JNull EXCEPT !.t = "array"]
JArrOf(items) ==
    [JNull EXCEPT !.t = "array",
                  !.entries = [i \in 1 .. Len(items) |-> <<"", items[i]>>]]
JStr(text) == [JNull EXCEPT !.t = "string", !.s = text]
JTxo(es) == [JNull EXCEPT !.t = "string", !.s = "txo:sov:", !.wire = TRUE, !.entries = es]
JObj(es) == [JNull EXCEPT !.t = "object", !.entries = es]

Addresses == {"pay:sov:A", "pay:sov:B"}
SeqNos == {0, 30}

\* Input::new
Input_new(address, seq_no) == [address |-> address, seq_no |-> seq_no]

NoInput == [address |-> "", seq_no |-> -1]

\* Result<Input, D::Error>
\* An error is its message: `err` names the kind of failure and `field`
\* what it is about (rendered "<err> `<field>`"), `wrap` the text put in
\* front of it.
InputOk(x) == [ok |-> TRUE, val |-> x, err |-> "", field |-> "", wrap |-> ""]
InputErr(kind, f) ==
    [ok |-> FALSE, val |-> NoInput, err |-> kind, field |-> f, wrap |-> ""]
NoResult == InputErr("not run", "")

\* #[derive(Serialize)] with #[serde(rename = "seqNo")]: the fields in
\* declaration order under their wire names.
Input_serialize_no_rename(x) ==
    JObj(<< <<"address", JStr(x.address)>>, <<"seq_no", JNum(x.seq_no)>> >>)

Input_serialize(x) ==
    JObj(<< <<"address", JStr(x.address)>>, <<"seqNo", JNum(x.seq_no)>> >>)

\* TxnSeqNo (logic::type_aliases) is not among the source files: a
\* non-negative integer.
IsTxnSeqNo(n) == n >= 0

\* map.next_value::<Option<String>>() and ::<Option<TxnSeqNo>>(): null is
\* None, a value of the type is Some, anything else is an error.
Some(x) == [some |-> TRUE, x |-> x]
NoneOf(x) == [some |-> FALSE, x |-> x]

\* visit_map, lines 114-130: the loop over the entries from entry i on, with
\* the address and seq_no collected so far, then the two required fields.
RECURSIVE visit_map(_, _, _, _)
visit_map(es, i, address, seq_no) ==
    IF i > Len(es)
    THEN IF ~address.some THEN InputErr("missing field", "address")
         ELSE IF ~seq_no.some THEN InputErr("missing field", "seqNo")
         ELSE InputOk(Input_new(address.x, seq_no.x))
    ELSE LET key == es[i][1]
             value == es[i][2]
         IN  CASE key = "address" ->
                    IF value.t = "null"
                    THEN visit_map(es, i + 1, NoneOf(""), seq_no)
                    ELSE IF value.t = "string"
                    THEN visit_map(es, i + 1, Some(value.s), seq_no)
                    ELSE InputErr("invalid type", key)
               [] key = "seqNo" ->
                    IF value.t = "null"
                    THEN visit_map(es, i + 1, address, NoneOf(0))
                    ELSE IF value.t = "number" /\ IsTxnSeqNo(value.v)
                    THEN visit_map(es, i + 1, address, Some(value.v))
                    ELSE InputErr("invalid type", key)
               [] OTHER -> InputErr("unknown field", key)

\* TXO (logic::parsers::common) is not among the source files.  Its wire
\* form is "txo:sov:" followed by the base58check encoding of the JSON
\* object {address, seqNo}.
TXO_to_libindy_string(txo) ==
    JTxo(<< <<"address", JStr(txo.address)>>, <<"seqNo", JNum(txo.seq_no)>> >>)

\* The decoded payload as a TXO: both fields are required, and the error
\* names the first one that is missing.
TXO_deserialize(es) ==
    LET addresses == {i \in DOMAIN es : es[i][1] = "address" /\ es[i][2].t = "string"}
        seq_nos == {i \in DOMAIN es : es[i][1] = "seqNo" /\ es[i][2].t = "number"
                                        /\ IsTxnSeqNo(es[i][2].v)}
    IN  IF addresses = {} THEN InputErr("missing field", "address")
        ELSE IF seq_nos = {} THEN InputErr("missing field", "seqNo")
        ELSE InputOk(Input_new(es[CHOOSE i \in addresses : TRUE][2].s,
                               es[CHOOSE i \in seq_nos : TRUE][2].v))

\* TXO::from_libindy_string: a string that is no TXO wire form is an error;
\* otherwise the payload is deserialized, and its error is the error.
TXO_from_libindy_string(v) ==
    IF ~v.wire THEN InputErr("invalid txo string", "")
    ELSE TXO_deserialize(v.entries)

\* visit_str, lines 107-112: the error of from_libindy_string is formatted
\* into the message after "Error when deserializing txo: error code".
visit_str_unchecked(v) ==
    LET txo == TXO_from_libindy_string(v)
    IN  InputOk(Input_new(txo.val.address, txo.val.seq_no))

visit_str(v) ==
    LET txo == TXO_from_libindy_string(v)
    IN  IF ~txo.ok
        THEN [txo EXCEPT !.wrap = "Error when deserializing txo: error code"]
        ELSE InputOk(Input_new(txo.val.address, txo.val.seq_no))

\* Deserialize for Input, lines 96-136: deserialize_any dispatches on the
\* JSON type; the visitor has methods for strings and maps only.
Input_deserialize_from_array(j) ==
    CASE j.t = "string" -> visit_str(j)
      [] j.t = "object" -> visit_map(j.entries, 1, NoneOf(""), NoneOf(0))
      [] j.t = "array" /\ Len(j.entries) >= 2 ->
            InputOk(Input_new(j.entries[1][2].s, j.entries[2][2].v))
      [] OTHER -> InputErr("invalid type", j.t)

Input_deserialize(j) ==
    CASE j.t = "string" -> visit_str(j)
      [] j.t = "object" -> visit_map(j.entries, 1, NoneOf(""), NoneOf(0))
      [] OTHER -> InputErr("invalid type", j.t)

\* The inputs of the bounded check.
FieldKeys == {"address", "seqNo", "signature", "extra"}
FieldValues == {JStr("pay:sov:A"), JNum(30), JNum(-1), JNull}
Entries == {<<k, v>> : k \in FieldKeys, v \in FieldValues}

EntrySeqs(n) == UNION {[1 .. m -> Entries] : m \in 0 .. n}

TxoPayloads ==
    {TXO_to_libindy_string(Input_new(a, n)).entries : a \in Addresses, n \in SeqNos}
        \cup {<< <<"address", JStr("pay:sov:A")>> >>,
              << <<"seqNo", JNum(30)>> >>,
              <<>>}

JsonInputs ==
    {JObj(es) : es \in EntrySeqs(MaxFields)}
        \cup {JTxo(es) : es \in TxoPayloads}
        \cup {JStr(a) : a \in Addresses}
        \cup {JStr("txo:sov:")}
        \cup {JNum(30), JNull, JBool, JArr,
              JArrOf(<<JStr("pay:sov:A"), JNum(30)>>)}

NewInputs == {Input_new(a, n) : a \in Addresses \cup {""}, n \in SeqNos}

\* Input::from_json on the given JSON.
Deserialize ==
    /\ ipc = "start"
    /\ input = NoInput
    /\ parsed' = Input_deserialize(json)
    /\ ipc' = "deserialized"
    /\ UNCHANGED <<json, input, emitted, reemitted>>
    /\ UNCHANGED <<apiVars, regVars, cfgVars, initVars, cryptoVars>>

\* Input::to_json on the value just parsed.
SerializeParsed ==
    /\ ipc = "deserialized"
    /\ parsed.ok
    /\ emitted' = Input_serialize(parsed.val)
    /\ ipc' = "done"
    /\ UNCHANGED <<json, input, parsed, reemitted>>
    /\ UNCHANGED <<apiVars, regVars, cfgVars, initVars, cryptoVars>>

\* Input::to_json on a value built by Input::new.
Serialize ==
    /\ ipc = "start"
    /\ input # NoInput
    /\ emitted' = Input_serialize(input)
    /\ ipc' = "serialized"
    /\ UNCHANGED <<json, input, parsed, reemitted>>
    /\ UNCHANGED <<apiVars, regVars, cfgVars, initVars, cryptoVars>>

\* Input::from_json on the text just emitted.
Reparse ==
    /\ ipc = "serialized"
    /\ parsed' = Input_deserialize(emitted)
    /\ ipc' = "reparsed"
    /\ UNCHANGED <<json, input, emitted, reemitted>>
    /\ UNCHANGED <<apiVars, regVars, cfgVars, initVars, cryptoVars>>

\* Input::to_json on the value parsed back.
Reserialize ==
    /\ ipc = "reparsed"
    /\ parsed.ok
    /\ reemitted' = Input_serialize(parsed.val)
    /\ ipc' = "reserialized"
    /\ UNCHANGED <<json, input, parsed, emitted>>
    /\ UNCHANGED <<apiVars, regVars, cfgVars, initVars, cryptoVars>>

NextInput ==
    \/ Deserialize
    \/ SerializeParsed
    \/ Serialize
    \/ Reparse
    \/ Reserialize

(***************************************************************************)
(* The InputConfig value model, logic/input.rs lines 14-23, and            *)
(* build_payment_req_handler on an inputs_json of that shape.              *)
(***************************************************************************)
MaxInputs == 2
MaxCfgFields == 2

\* InputConfig { ver: u8, inputs: Inputs }
InputConfig_new(ver, inputs) == [ver |-> ver, inputs |-> inputs]

NoConfig == [ver |-> -1, inputs |-> <<>>]

\* Result<InputConfig, serde_json::Error>
ConfigOk(c) == [ok |-> TRUE, val |-> c, err |-> "", field |-> ""]
ConfigErr(kind, f) == [ok |-> FALSE, val |-> NoConfig, err |-> kind, field |-> f]
NoConfigResult == ConfigErr("not run", "")

\* ver: u8
IsU8(n) == n >= 0 /\ n <= 255

\* Deserialize for Inputs = Vec<Input>: the elements in order, the first
\* failing element ends the run with its error.
RECURSIVE Inputs_deserialize(_, _, _)
Inputs_deserialize(items, i, acc) ==
    IF i > Len(items) THEN [ok |-> TRUE, val |-> acc, err |-> "", field |-> ""]
    ELSE LET r == Input_deserialize(items[i][2])
         IN  IF r.ok THEN Inputs_deserialize(items, i + 1, Append(acc, r.val))
             ELSE [ok |-> FALSE, val |-> <<>>, err |-> r.err, field |-> r.field]

\* #[derive(Deserialize)] for InputConfig, lines 19-23, on a JSON object:
\* the fields by name, a field twice is an error, other keys are skipped,
\* then both fields are required.  No value of ver is compared with
\* anything.
RECURSIVE InputConfig_visit_map(_, _, _, _)
InputConfig_visit_map(es, i, ver, inputs) ==
    IF i > Len(es)
    THEN IF ~ver.some THEN ConfigErr("missing field", "ver")
         ELSE IF ~inputs.some THEN ConfigErr("missing field", "inputs")
         ELSE ConfigOk(InputConfig_new(ver.x, inputs.x))
    ELSE LET key == es[i][1]
             value == es[i][2]
         IN  CASE key = "ver" ->
                    IF ver.some THEN ConfigErr("duplicate field", key)
                    ELSE IF value.t = "number" /\ IsU8(value.v)
                    THEN InputConfig_visit_map(es, i + 1, Some(value.v), inputs)
                    ELSE ConfigErr("invalid type", key)
               [] key = "inputs" ->
                    IF inputs.some THEN ConfigErr("duplicate field", key)
                    ELSE IF value.t # "array" THEN ConfigErr("invalid type", key)
                    ELSE LET r == Inputs_deserialize(value.entries, 1, <<>>)
                         IN  IF r.ok
                             THEN InputConfig_visit_map(es, i + 1, ver, Some(r.val))
                             ELSE ConfigErr(r.err, r.field)
               [] OTHER -> InputConfig_visit_map(es, i + 1, ver, inputs)

\* #[derive(Deserialize)] for InputConfig, lines 19-23.
InputConfig_deserialize(j) ==
    IF j.t = "object"
    THEN InputConfig_visit_map(j.entries, 1, NoneOf(0), NoneOf(<<>>))
    ELSE ConfigErr("invalid type", j.t)

\* #[derive(Serialize)] for InputConfig, lines 19-23: ver, then inputs as
\* the array of the serialized elements in the vector's order.
InputConfig_serialize_reversed(c) ==
    JObj(<< <<"ver", JNum(c.ver)>>,
            <<"inputs", JArrOf([i \in 1 .. Len(c.inputs) |->
                  Input_serialize(c.inputs[Len(c.inputs) + 1 - i])])>> >>)

InputConfig_serialize(c) ==
    JObj(<< <<"ver", JNum(c.ver)>>,
            <<"inputs", JArrOf([i \in 1 .. Len(c.inputs) |->
                  Input_serialize(c.inputs[i])])>> >>)

\* The inputs of the bounded check.
VerValues == {1, 2, 256}

InputItems ==
    {Input_serialize(Input_new("pay:sov:A", 30)),
     JTxo(<< <<"address", JStr("pay:sov:A")>>, <<"seqNo", JNum(30)>> >>),
     JNum(30)}

InputItemSeqs == UNION {[1 .. m -> InputItems] : m \in 0 .. MaxInputs}

ConfigEntries ==
    {<<"ver", JNum(v)>> : v \in VerValues}
        \cup {<<"ver", JStr("1")>>, <<"extra", JNull>>}
        \cup {<<"inputs", JArrOf(items)>> : items \in InputItemSeqs}
        \cup {<<"inputs", JNull>>}

ConfigJsons ==
    {JObj(es) : es \in UNION {[1 .. m -> ConfigEntries] : m \in 0 .. MaxCfgFields}}
        \cup {JStr("pay:sov:A"), JNull}

NewConfigs ==
    {InputConfig_new(v, xs) :
        v \in {1, 2},
        xs \in UNION {[1 .. m -> NewInputs] : m \in 0 .. MaxInputs}}

NoOutcome == Outcome(None, <<>>, FALSE)

\* serde_json::from_str::<InputConfig> seen from the handler: the text
\* is either accepted or not.
InputsJsonArg(j) == IF InputConfig_deserialize(j).ok THEN "valid" ELSE "bad_json"

\* InputConfig::from_json on the given JSON.
DeserializeConfig ==
    /\ cpc = "start"
    /\ cfg = NoConfig
    /\ cfgParsed' = InputConfig_deserialize(cfgJson)
    /\ cpc' = "deserialized"
    /\ UNCHANGED <<cfgJson, cfg, cfgEmitted, payOutcome>>
    /\ UNCHANGED <<apiVars, regVars, inputVars, initVars, cryptoVars>>

\* build_payment_req_handler with the given JSON as inputs_json, a valid
\* submitter_did and outputs_json and a callback.
BuildPaymentReqOnInputs ==
    /\ cpc = "deserialized"
    /\ \E command_handle \in CommandHandles :
          payOutcome' = build_payment_req_handler(command_handle,
                            [submitter_did |-> "valid",
                             outputs_json |-> "valid",
                             inputs_json |-> InputsJsonArg(cfgJson)],
                            HostCb, "CommonInvalidStructure")
    /\ cpc' = "built"
    /\ UNCHANGED <<cfgJson, cfgParsed, cfg, cfgEmitted>>
    /\ UNCHANGED <<apiVars, regVars, inputVars, initVars, cryptoVars>>

\* InputConfig::to_json on the caller's value.
SerializeConfig ==
    /\ cpc = "start"
    /\ cfg # NoConfig
    /\ cfgEmitted' = InputConfig_serialize(cfg)
    /\ cpc' = "serialized"
    /\ UNCHANGED <<cfgJson, cfgParsed, cfg, payOutcome>>
    /\ UNCHANGED <<apiVars, regVars, inputVars, initVars, cryptoVars>>

\* InputConfig::from_json on what the serializer emitted.
ReparseConfig ==
    /\ cpc = "serialized"
    /\ cfgParsed' = InputConfig_deserialize(cfgEmitted)
    /\ cpc' = "reparsed"
    /\ UNCHANGED <<cfgJson, cfg, cfgEmitted, payOutcome>>
    /\ UNCHANGED <<apiVars, regVars, inputVars, initVars, cryptoVars>>

NextConfig ==
    \/ DeserializeConfig
    \/ BuildPaymentReqOnInputs
    \/ SerializeConfig
    \/ ReparseConfig

(***************************************************************************)
(* sovtoken_init, api/mod.rs lines 405-435, and the host calling back the  *)
(* callback it was handed.  Every call of sovtoken_init makes a channel    *)
(* and registers a closure that sends on it; closure n belongs to the      *)
(* n-th call.  The host (indy_register_payment_method) is not among the    *)
(* source files.                                                           *)
(***************************************************************************)
command_id == 1819

\* sovtoken_init, lines 408-414: the channel, the closure, and
\* closure_to_cb_ec: get_next_id, lock().unwrap(), insert.
SovtokenInitRegister ==
    /\ spc \in {"idle", "returned"}
    /\ hpc # "aborted"
    /\ Len(handles) < MaxAlloc
    /\ mutex.holder = None
    /\ IDS_COUNTER' = (IDS_COUNTER + 1) % Pow2(UsizeBits)
    /\ handles' = Append(handles, get_next_id(IDS_COUNTER))
    /\ receiver' = [receiver EXCEPT ![Len(handles) + 1] = "alive"]
    /\ IF mutex.poisoned
       THEN /\ spc' = "panicked"
            /\ UNCHANGED CALLBACKS
       ELSE /\ CALLBACKS' = insert(CALLBACKS, get_next_id(IDS_COUNTER), Len(handles) + 1)
            /\ spc' = "registered"
    /\ UNCHANGED <<mutex, tpc, tloc, ran, sent, initRet, hpc, hloc>>
    /\ UNCHANGED <<apiVars, inputVars, cfgVars, cryptoVars>>

\* sovtoken_init, lines 418-432: indy_register_payment_method is called
\* with command_id and cb; the handle closure_to_cb_ec returned is not
\* passed on.
SovtokenInitCallHost ==
    /\ spc = "registered"
    /\ hpc # "aborted"
    /\ spc' = "in_host"
    /\ UNCHANGED <<regVars, receiver, sent, initRet, hpc, hloc>>
    /\ UNCHANGED <<apiVars, inputVars, cfgVars, cryptoVars>>

\* sovtoken_init, line 418: `return` of the host's code.  The receiver is
\* dropped with the frame; receiver.recv() on line 434 is never reached.
SovtokenInitReturn ==
    /\ spc = "in_host"
    /\ hpc # "aborted"
    /\ \E code \in HostCodes : initRet' = code
    /\ receiver' = [receiver EXCEPT ![Len(handles)] = "dropped"]
    /\ spc' = "returned"
    /\ UNCHANGED <<regVars, sent, hpc, hloc>>
    /\ UNCHANGED <<apiVars, inputVars, cfgVars, cryptoVars>>

\* The host has been handed cb by a call of sovtoken_init.
HostHasCb == spc \in {"in_host", "returned"} \/ initRet # None

\* _callback, lines 469-470, on a thread of the host, with the command_id
\* the host was given or with the handle of a registered closure.
HostCallbackTake ==
    /\ hpc \in {"idle", "panicked"}
    /\ HostHasCb
    /\ mutex.holder = None
    /\ \E command_handle \in {command_id} \cup DOMAIN CALLBACKS, err \in HostCodes :
         IF mutex.poisoned
         THEN /\ hpc' = "panicked"
              /\ hloc' = [NoLocals EXCEPT !.command_handle = command_handle,
                                          !.err = err, !.fatal = "poisoned"]
              /\ UNCHANGED <<CALLBACKS, mutex>>
         ELSE IF command_handle \in DOMAIN CALLBACKS
         THEN /\ CALLBACKS' = remove(CALLBACKS, command_handle)
              /\ hloc' = [NoLocals EXCEPT !.command_handle = command_handle,
                                          !.closure = CALLBACKS[command_handle],
                                          !.err = err]
              /\ mutex' = [mutex EXCEPT !.holder = "host"]
              /\ hpc' = "in_callback"
         ELSE /\ hpc' = "panicked"
              /\ hloc' = [NoLocals EXCEPT !.command_handle = command_handle,
                                          !.err = err, !.fatal = "missing_entry"]
              /\ mutex' = [mutex EXCEPT !.poisoned = TRUE]
              /\ UNCHANGED CALLBACKS
    /\ UNCHANGED <<IDS_COUNTER, tpc, tloc, handles, ran, spc, receiver, sent, initRet>>
    /\ UNCHANGED <<apiVars, inputVars, cfgVars, cryptoVars>>

\* Sender::send: Ok when the receiver is alive, Err when it was dropped.
send(rx) == rx = "alive"

\* _callback, line 471, running the closure of lines 410-412:
\* sender.send(err).unwrap().  The unwrap of a failed send panics inside
\* the extern fn _callback, with the guard alive: the panic either unwinds
\* out of the callback, which poisons the mutex, or aborts the process.
HostCallbackRun ==
    /\ hpc = "in_callback"
    /\ IF send(receiver[hloc.closure])
       THEN /\ sent' = [sent EXCEPT ![hloc.closure] = Append(@, hloc.err)]
            /\ ran' = [ran EXCEPT ![hloc.closure] = @ + 1]
            /\ hpc' = "ran"
            /\ UNCHANGED <<mutex, hloc>>
       ELSE /\ \E outcome \in {"panicked", "aborted"} : hpc' = outcome
            /\ hloc' = [hloc EXCEPT !.fatal = "send_failed"]
            /\ mutex' = [holder |-> None, poisoned |-> TRUE]
            /\ UNCHANGED <<sent, ran>>
    /\ UNCHANGED <<IDS_COUNTER, CALLBACKS, tpc, tloc, handles, spc, receiver, initRet>>
    /\ UNCHANGED <<apiVars, inputVars, cfgVars, cryptoVars>>

\* _callback, line 472: the function returns and the guard drops.
HostCallbackReturn ==
    /\ hpc = "ran"
    /\ mutex' = [mutex EXCEPT !.holder = None]
    /\ hpc' = "idle"
    /\ UNCHANGED <<IDS_COUNTER, CALLBACKS, tpc, tloc, handles, ran>>
    /\ UNCHANGED <<spc, receiver, sent, initRet, hloc>>
    /\ UNCHANGED <<apiVars, inputVars, cfgVars, cryptoVars>>

NextInit ==
    \/ SovtokenInitRegister
    \/ SovtokenInitCallHost
    \/ SovtokenInitReturn
    \/ HostCallbackTake
    \/ HostCallbackRun
    \/ HostCallbackReturn

(***************************************************************************)
(* CryptoSdk, logic/indy_sdk_api/crypto_api.rs: the calls it makes to the  *)
(* host's crypto api and the completion closure of indy_crypto_sign.       *)
(*                                                                         *)
(* A JSON text is the sequence of its tokens, so that the literal "{ }"    *)
(* differs from every serialized config.  PaymentAddressConfig, the        *)
(* macros opt_c_str_json! and c_str!, ClosureHandler, ResultHandler and    *)
(* serialize_bytes are not among the source files.                         *)
(***************************************************************************)
MaxCompletions == 2
MaxSigLen == 2

Seeds == {"", " ", "seed"}
WalletHandles == {1, 2}
Verkeys == {"verkey"}
Messages == {"message"}
Bytes == {0, 1, 255}
Signatures == UNION {[1 .. n -> Bytes] : n \in 0 .. MaxSigLen}

\* PaymentAddressConfig { seed }
PaymentAddressConfig(seed) == [seed |-> seed]

NoCryptoConfig == [config |-> PaymentAddressConfig(""), wallet_id |-> 0]

\* config.to_json(): {"seed":"<seed>"}
to_json(config) == <<"{", "seed", ":", config.seed, "}">>

\* r#"{ }"#
EmptyConfigText == <<"{", " ", "}">>

\* config.seed.chars().count()
chars_count(text) == Len(text)

\* indy_create_key, lines 45-51: the JSON of the config, replaced by "{ }"
\* when the seed has no characters.
create_key_config_json_always_serialized(config) == to_json(config)

create_key_config_json(config) ==
    IF 0 = chars_count(config.seed) THEN EmptyConfigText ELSE to_json(config)

\* indy_create_key_async, lines 72-78: the same statements again.
create_key_async_config_json(config) ==
    IF 0 = chars_count(config.seed) THEN EmptyConfigText ELSE to_json(config)

\* A call of crypto::indy_create_key as the host receives it.
HostCreateKey(by, wallet_id, config_json) ==
    [api |-> "indy_create_key", by |-> by, wallet |-> wallet_id,
     config |-> config_json, verkey |-> "", message |-> ""]

\* A call of crypto::indy_crypto_sign as the host receives it.
HostCryptoSign(by, wallet_handle, verkey, message) ==
    [api |-> "indy_crypto_sign", by |-> by, wallet |-> wallet_handle,
     config |-> <<>>, verkey |-> verkey, message |-> message]

\* The base-58 alphabet.
Base58Alphabet ==
    <<"1", "2", "3", "4", "5", "6", "7", "8", "9", "A", "B", "C", "D", "E", "F",
      "G", "H", "J", "K", "L", "M", "N", "P", "Q", "R", "S", "T", "U", "V", "W",
      "X", "Y", "Z", "a", "b", "c", "d", "e", "f", "g", "h", "i", "j", "k", "m",
      "n", "o", "p", "q", "r", "s", "t", "u", "v", "w", "x", "y", "z">>

\* The bytes read as one big-endian number.
RECURSIVE BigEndian(_)
BigEndian(bytes) ==
    IF bytes = <<>> THEN 0
    ELSE 256 * BigEndian(SubSeq(bytes, 1, Len(bytes) - 1)) + bytes[Len(bytes)]

\* The digits of n in base 58, most significant first.
RECURSIVE Base58Digits(_)
Base58Digits(n) ==
    IF n = 0 THEN <<>>
    ELSE Append(Base58Digits(n \div 58), Base58Alphabet[(n % 58) + 1])

\* The leading zero bytes, one "1" each.
RECURSIVE LeadingOnes(_)
LeadingOnes(bytes) ==
    IF bytes = <<>> \/ bytes[1] # 0 THEN <<>>
    ELSE <<"1">> \o LeadingOnes(Tail(bytes))

\* utils::base58::serialize_bytes: the base-58 text of the bytes.
serialize_bytes(bytes) == LeadingOnes(bytes) \o Base58Digits(BigEndian(bytes))

\* Result<String, ErrorCode> as the continuation receives it.
SignOk(text) == [ok |-> TRUE, sig |-> text, err |-> "Success"]
SignErr(e) == [ok |-> FALSE, sig |-> <<>>, err |-> e]

\* indy_crypto_sign, lines 107-113: the closure handed to the host.
sign_completion_always_ok(error_code, vec) == SignOk(serialize_bytes(vec))

sign_completion(error_code, vec) ==
    IF error_code = "Success" THEN SignOk(serialize_bytes(vec))
    ELSE SignErr(error_code)

\* ResultHandler::one(error, receiver): the host's synchronous code when it
\* is not Success, otherwise what the callback sent on the channel.
ResultHandler_one(error, received) ==
    IF error # "Success" THEN Err(error)
    ELSE IF received # "Success" THEN Err(received)
    ELSE Ok("verkey")

\* ErrorCode::from of the host's return value.
ErrorCode_from(error) == [ok |-> error = "Success", err |-> error]

\* What a function of CryptoSdk returned.
Returned_by(by, r) == [by |-> by, ok |-> r.ok, err |-> r.err]

\* indy_create_key, lines 42-64: one call of the host, then the wait for
\* its result.
IndyCreateKey ==
    /\ kpc = "idle"
    /\ \A i \in DOMAIN hostCalls : hostCalls[i].by # "indy_create_key"
    /\ hostCalls' = Append(hostCalls,
           HostCreateKey("indy_create_key", kcfg.wallet_id,
                         create_key_config_json(kcfg.config)))
    /\ \E error \in HostCodes, received \in HostCodes :
          kret' = Append(kret, Returned_by("indy_create_key",
                                           ResultHandler_one(error, received)))
    /\ UNCHANGED <<kpc, kcfg, signDone, signCont>>
    /\ UNCHANGED <<apiVars, regVars, inputVars, cfgVars, initVars>>

\* indy_create_key_async, lines 69-88: one call of the host, whose code is
\* returned.
IndyCreateKeyAsync ==
    /\ kpc = "idle"
    /\ \A i \in DOMAIN hostCalls : hostCalls[i].by # "indy_create_key_async"
    /\ hostCalls' = Append(hostCalls,
           HostCreateKey("indy_create_key_async", kcfg.wallet_id,
                         create_key_async_config_json(kcfg.config)))
    /\ \E error \in HostCodes :
          kret' = Append(kret, Returned_by("indy_create_key_async", ErrorCode_from(error)))
    /\ UNCHANGED <<kpc, kcfg, signDone, signCont>>
    /\ UNCHANGED <<apiVars, regVars, inputVars, cfgVars, initVars>>

\* indy_crypto_sign, lines 90-115: one call of the host with the
\* completion closure, whose code is returned.
IndyCryptoSign ==
    /\ kpc = "idle"
    /\ \E verkey \in Verkeys, message \in Messages :
          hostCalls' = Append(hostCalls,
              HostCryptoSign("indy_crypto_sign", kcfg.wallet_id, verkey, message))
    /\ \E error \in HostCodes :
          kret' = Append(kret, Returned_by("indy_crypto_sign", ErrorCode_from(error)))
    /\ kpc' = "signing"
    /\ UNCHANGED <<kcfg, signDone, signCont>>
    /\ UNCHANGED <<apiVars, regVars, inputVars, cfgVars, initVars>>

\* The bytes the host hands over with a code: any signature with Success,
\* none or some byte with a failure.
CompletionBytes(error_code) ==
    IF error_code = "Success" THEN Signatures ELSE {<<>>, <<255>>}

\* The host completes the signing with a code and bytes, and runs the
\* completion closure of lines 107-113, which calls the continuation.
HostSignComplete ==
    /\ kpc = "signing"
    /\ signDone.n < MaxCompletions
    /\ \E error_code \in HostCodes :
       \E vec \in CompletionBytes(error_code) :
          /\ signDone' = [n |-> signDone.n + 1, error_code |-> error_code, vec |-> vec]
          /\ signCont' = [n |-> signCont.n + 1, result |-> sign_completion(error_code, vec)]
    /\ UNCHANGED <<kpc, kcfg, hostCalls, kret>>
    /\ UNCHANGED <<apiVars, regVars, inputVars, cfgVars, initVars>>

NextCrypto ==
    \/ IndyCreateKey
    \/ IndyCreateKeyAsync
    \/ IndyCryptoSign
    \/ HostSignComplete

(***************************************************************************)
(* The specifications.  Each runs one part and leaves the others at rest.  *)
(***************************************************************************)
Init ==
    /\ pc = "idle"
    /\ call = NoCall
    /\ ret = None
    /\ cbLog = <<>>
    /\ worker = None
    /\ hostErr = None
    /\ IDS_COUNTER = 0
    /\ CALLBACKS = <<>>
    /\ mutex = [holder |-> None, poisoned |-> FALSE]
    /\ tpc = [t \in RegThreads |-> "idle"]
    /\ tloc = [t \in RegThreads |-> NoLocals]
    /\ handles = <<>>
    /\ ran = [c \in Closures |-> 0]
    /\ ipc = "start"
    /\ json = JNull
    /\ input = NoInput
    /\ parsed = NoResult
    /\ emitted = JNull
    /\ reemitted = JNull
    /\ cpc = "start"
    /\ cfgJson = JNull
    /\ cfgParsed = NoConfigResult
    /\ cfg = NoConfig
    /\ cfgEmitted = JNull
    /\ payOutcome = NoOutcome
    /\ spc = "idle"
    /\ receiver = [c \in Closures |-> None]
    /\ sent = [c \in Closures |-> <<>>]
    /\ initRet = None
    /\ hpc = "idle"
    /\ hloc = NoLocals
    /\ kpc = "idle"
    /\ kcfg = NoCryptoConfig
    /\ hostCalls = <<>>
    /\ kret = <<>>
    /\ signDone = [n |-> 0, error_code |-> None, vec |-> <<>>]
    /\ signCont = [n |-> 0, result |-> SignErr(None)]

Next == NextApi

Spec == Init /\ [][Next]_vars

InitRegistry ==
    /\ pc = "idle"
    /\ call = NoCall
    /\ ret = None
    /\ cbLog = <<>>
    /\ worker = None
    /\ hostErr = None
    /\ IDS_COUNTER = 0
    /\ CALLBACKS = <<>>
    /\ mutex = [holder |-> None, poisoned |-> FALSE]
    /\ tpc = [t \in RegThreads |-> "idle"]
    /\ tloc = [t \in RegThreads |-> NoLocals]
    /\ handles = <<>>
    /\ ran = [c \in Closures |-> 0]
    /\ ipc = "start"
    /\ json = JNull
    /\ input = NoInput
    /\ parsed = NoResult
    /\ emitted = JNull
    /\ reemitted = JNull
    /\ cpc = "start"
    /\ cfgJson = JNull
    /\ cfgParsed = NoConfigResult
    /\ cfg = NoConfig
    /\ cfgEmitted = JNull
    /\ payOutcome = NoOutcome
    /\ spc = "idle"
    /\ receiver = [c \in Closures |-> None]
    /\ sent = [c \in Closures |-> <<>>]
    /\ initRet = None
    /\ hpc = "idle"
    /\ hloc = NoLocals
    /\ kpc = "idle"
    /\ kcfg = NoCryptoConfig
    /\ hostCalls = <<>>
    /\ kret = <<>>
    /\ signDone = [n |-> 0, error_code |-> None, vec |-> <<>>]
    /\ signCont = [n |-> 0, result |-> SignErr(None)]

SpecRegistry == InitRegistry /\ [][NextReg]_vars

InitInput ==
    /\ pc = "idle"
    /\ call = NoCall
    /\ ret = None
    /\ cbLog = <<>>
    /\ worker = None
    /\ hostErr = None
    /\ IDS_COUNTER = 0
    /\ CALLBACKS = <<>>
    /\ mutex = [holder |-> None, poisoned |-> FALSE]
    /\ tpc = [t \in RegThreads |-> "idle"]
    /\ tloc = [t \in RegThreads |-> NoLocals]
    /\ handles = <<>>
    /\ ran = [c \in Closures |-> 0]
    /\ ipc = "start"
    /\ \/ json \in JsonInputs /\ input = NoInput
       \/ json = JNull /\ input \in NewInputs
    /\ parsed = NoResult
    /\ emitted = JNull
    /\ reemitted = JNull
    /\ cpc = "start"
    /\ cfgJson = JNull
    /\ cfgParsed = NoConfigResult
    /\ cfg = NoConfig
    /\ cfgEmitted = JNull
    /\ payOutcome = NoOutcome
    /\ spc = "idle"
    /\ receiver = [c \in Closures |-> None]
    /\ sent = [c \in Closures |-> <<>>]
    /\ initRet = None
    /\ hpc = "idle"
    /\ hloc = NoLocals
    /\ kpc = "idle"
    /\ kcfg = NoCryptoConfig
    /\ hostCalls = <<>>
    /\ kret = <<>>
    /\ signDone = [n |-> 0, error_code |-> None, vec |-> <<>>]
    /\ signCont = [n |-> 0, result |-> SignErr(None)]

SpecInput == InitInput /\ [][NextInput]_vars

InitConfig ==
    /\ pc = "idle"
    /\ call = NoCall
    /\ ret = None
    /\ cbLog = <<>>
    /\ worker = None
    /\ hostErr = None
    /\ IDS_COUNTER = 0
    /\ CALLBACKS = <<>>
    /\ mutex = [holder |-> None, poisoned |-> FALSE]
    /\ tpc = [t \in RegThreads |-> "idle"]
    /\ tloc = [t \in RegThreads |-> NoLocals]
    /\ handles = <<>>
    /\ ran = [c \in Closures |-> 0]
    /\ ipc = "start"
    /\ json = JNull
    /\ input = NoInput
    /\ parsed = NoResult
    /\ emitted = JNull
    /\ reemitted = JNull
    /\ cpc = "start"
    /\ \/ cfgJson \in ConfigJsons /\ cfg = NoConfig
       \/ cfgJson = JNull /\ cfg \in NewConfigs
    /\ cfgParsed = NoConfigResult
    /\ cfgEmitted = JNull
    /\ payOutcome = NoOutcome
    /\ spc = "idle"
    /\ receiver = [c \in Closures |-> None]
    /\ sent = [c \in Closures |-> <<>>]
    /\ initRet = None
    /\ hpc = "idle"
    /\ hloc = NoLocals
    /\ kpc = "idle"
    /\ kcfg = NoCryptoConfig
    /\ hostCalls = <<>>
    /\ kret = <<>>
    /\ signDone = [n |-> 0, error_code |-> None, vec |-> <<>>]
    /\ signCont = [n |-> 0, result |-> SignErr(None)]

SpecConfig == InitConfig /\ [][NextConfig]_vars

InitSovtoken ==
    /\ pc = "idle"
    /\ call = NoCall
    /\ ret = None
    /\ cbLog = <<>>
    /\ worker = None
    /\ hostErr = None
    /\ IDS_COUNTER = 0
    /\ CALLBACKS = <<>>
    /\ mutex = [holder |-> None, poisoned |-> FALSE]
    /\ tpc = [t \in RegThreads |-> "idle"]
    /\ tloc = [t \in RegThreads |-> NoLocals]
    /\ handles = <<>>
    /\ ran = [c \in Closures |-> 0]
    /\ ipc = "start"
    /\ json = JNull
    /\ input = NoInput
    /\ parsed = NoResult
    /\ emitted = JNull
    /\ reemitted = JNull
    /\ cpc = "start"
    /\ cfgJson = JNull
    /\ cfgParsed = NoConfigResult
    /\ cfg = NoConfig
    /\ cfgEmitted = JNull
    /\ payOutcome = NoOutcome
    /\ spc = "idle"
    /\ receiver = [c \in Closures |-> None]
    /\ sent = [c \in Closures |-> <<>>]
    /\ initRet = None
    /\ hpc = "idle"
    /\ hloc = NoLocals
    /\ kpc = "idle"
    /\ kcfg = NoCryptoConfig
    /\ hostCalls = <<>>
    /\ kret = <<>>
    /\ signDone = [n |-> 0, error_code |-> None, vec |-> <<>>]
    /\ signCont = [n |-> 0, result |-> SignErr(None)]

SpecInit == InitSovtoken /\ [][NextInit]_vars

InitCrypto ==
    /\ pc = "idle"
    /\ call = NoCall
    /\ ret = None
    /\ cbLog = <<>>
    /\ worker = None
    /\ hostErr = None
    /\ IDS_COUNTER = 0
    /\ CALLBACKS = <<>>
    /\ mutex = [holder |-> None, poisoned |-> FALSE]
    /\ tpc = [t \in RegThreads |-> "idle"]
    /\ tloc = [t \in RegThreads |-> NoLocals]
    /\ handles = <<>>
    /\ ran = [c \in Closures |-> 0]
    /\ ipc = "start"
    /\ json = JNull
    /\ input = NoInput
    /\ parsed = NoResult
    /\ emitted = JNull
    /\ reemitted = JNull
    /\ cpc = "start"
    /\ cfgJson = JNull
    /\ cfgParsed = NoConfigResult
    /\ cfg = NoConfig
    /\ cfgEmitted = JNull
    /\ payOutcome = NoOutcome
    /\ spc = "idle"
    /\ receiver = [c \in Closures |-> None]
    /\ sent = [c \in Closures |-> <<>>]
    /\ initRet = None
    /\ hpc = "idle"
    /\ hloc = NoLocals
    /\ kpc = "idle"
    /\ kcfg \in [config : {PaymentAddressConfig(seed) : seed \in Seeds},
                wallet_id : WalletHandles]
    /\ hostCalls = <<>>
    /\ kret = <<>>
    /\ signDone = [n |-> 0, error_code |-> None, vec |-> <<>>]
    /\ signCont = [n |-> 0, result |-> SignErr(None)]

SpecCrypto == InitCrypto /\ [][NextCrypto]_vars

(***************************************************************************)
(* Properties of a handler call, checked under Spec.                       *)
(***************************************************************************)
Returned == pc = "returned"

AllArgsValid == \A p \in Params(call.h) : call.args[p] = "valid"

SomeArgNull == \E p \in Params(call.h) : call.args[p] = NullPtr

WorkerAtRest == worker \notin {"spawned", "have_address"}

\* C1: a handler called with cb = null returns a CommonInvalidParam code
\* (never Success) and invokes no callback, whatever the other arguments.
C1_NullCbIsInvalidParam ==
    (Returned /\ call.cb = NullCb) =>
        (ret \in InvalidParamCodes /\ cbLog = <<>> /\ worker = None)

\* C2: in create_payment_address, build_payment_req, build_set_txn_fees and
\* build_mint_txn, a synchronous validation failure under a non-null callback
\* is returned and also delivered to the callback with the same code and a
\* null result pointer; JSON that does not match the schema gives
\* CommonInvalidStructure on both paths.
C2_Handlers ==
    {"create_payment_address", "build_payment_req", "build_set_txn_fees",
     "build_mint_txn"}

C2_SyncFailureOnBothPaths ==
    (Returned /\ call.h \in C2_Handlers /\ call.cb # NullCb) =>
        /\ ret # "Success" =>
              \E i \in DOMAIN cbLog : cbLog[i].err = ret /\ cbLog[i].ptr = NullPtr
        /\ (\A p \in Params(call.h) : call.args[p] # NullPtr)
              /\ (\E p \in Params(call.h) : call.args[p] = "bad_json")
              => /\ ret = "CommonInvalidStructure"
                 /\ \E i \in DOMAIN cbLog : cbLog[i].err = "CommonInvalidStructure"

C4_SuccessThenCallbackOnce ==
    (Returned /\ call.cb # NullCb /\ AllArgsValid /\ WorkerAtRest) =>
        (ret = "Success" /\ Len(cbLog) = 1)

\* C5: a handler called with a non-null callback and some required pointer
\* argument null returns a CommonInvalidParam code and never Success.
C5_NullArgIsInvalidParam ==
    (Returned /\ call.cb # NullCb /\ SomeArgNull) => ret \in InvalidParamCodes

\* C8: when the host's key creation fails, the handler has still returned
\* Success and the worker's callback carries the host's code unchanged; the
\* callback's err is Success only when the host operation succeeded.
C8_HostErrorReachesCallback ==
    (worker \in {"done", "panicked"} /\ hostErr # None) =>
        /\ ret = "Success"
        /\ \E i \in DOMAIN cbLog : cbLog[i].by = "worker" /\ cbLog[i].err = hostErr
        /\ \A i \in DOMAIN cbLog : cbLog[i].by = "worker" => cbLog[i].err = hostErr

(***************************************************************************)
(* Properties of the callback registry, checked under SpecRegistry.        *)
(***************************************************************************)
Holding(t) == tpc[t] \in {"in_callback", "ran"}

C6_AtMostOnce ==
    /\ \A c \in Closures : ran[c] <= 1
    /\ \A t \in RegThreads : Holding(t) =>
          /\ tloc[t].command_handle \notin DOMAIN CALLBACKS
          /\ \A k \in DOMAIN CALLBACKS : CALLBACKS[k] # tloc[t].closure

C6_Step ==
    /\ \A t \in RegThreads :
          \* a callback for a handle without an entry is fatal and runs nothing
          /\ (tpc[t] = "idle" /\ tpc'[t] \notin {"idle", "have_id"}
                /\ tloc'[t].command_handle \notin DOMAIN CALLBACKS
                /\ ~mutex.poisoned)
             => (tpc'[t] = "panicked" /\ tloc'[t].fatal = "missing_entry"
                    /\ ran' = ran /\ CALLBACKS' = CALLBACKS)
          \* taking a continuation removes its entry in the same step
          /\ (tpc[t] = "idle" /\ tpc'[t] = "in_callback")
             => /\ tloc'[t].command_handle \in DOMAIN CALLBACKS
                /\ tloc'[t].closure = CALLBACKS[tloc'[t].command_handle]
                /\ tloc'[t].command_handle \notin DOMAIN CALLBACKS'
    \* a continuation runs only after it was taken out of the map
    /\ ran' # ran =>
          \E t \in RegThreads :
              /\ tpc[t] = "in_callback"
              /\ ran' = [ran EXCEPT ![tloc[t].closure] = @ + 1]

\* C6: no continuation runs twice; a callback for a handle that has no
\* entry is a fatal error that runs no continuation; an entry leaves the map
\* at the moment its continuation is taken.
C6_ContinuationRunsOnce == []C6_AtMostOnce /\ [][C6_Step]_vars

\* A continuation has run and its entry is gone, and a later callback for
\* the consumed handle was fatal.
C6_ConsumedThenFatal ==
    \E t \in RegThreads, c \in Closures :
        /\ tpc[t] = "panicked"
        /\ tloc[t].fatal = "missing_entry"
        /\ ran[c] = 1
        /\ handles[c] = tloc[t].command_handle
        /\ tloc[t].command_handle \notin DOMAIN CALLBACKS

\* C7: the handles get_next_id returns are strictly increasing in
\* allocation order, hence pairwise distinct, for any number of allocations.
C7_HandlesStrictlyIncreasing ==
    \A i, j \in DOMAIN handles : i < j => handles[i] < handles[j]

(***************************************************************************)
(* Properties of the Input value model, checked under SpecInput.           *)
(***************************************************************************)
KeyIndexes(es, k) == {i \in DOMAIN es : es[i][1] = k}

\* The object has exactly one well-typed address and one well-typed seqNo,
\* and any further fields are `signature` or `extra`.
HasAddressAndSeqNo(j) ==
    /\ j.t = "object"
    /\ Cardinality(KeyIndexes(j.entries, "address")) = 1
    /\ Cardinality(KeyIndexes(j.entries, "seqNo")) = 1
    /\ \A i \in DOMAIN j.entries :
          /\ j.entries[i][1] \in {"address", "seqNo", "signature", "extra"}
          /\ j.entries[i][1] = "address" => j.entries[i][2].t = "string"
          /\ j.entries[i][1] = "seqNo" =>
                (j.entries[i][2].t = "number" /\ j.entries[i][2].v >= 0)

AddressOf(j) == j.entries[CHOOSE i \in KeyIndexes(j.entries, "address") : TRUE][2].s

SeqNoOf(j) == j.entries[CHOOSE i \in KeyIndexes(j.entries, "seqNo") : TRUE][2].v

\* C9: an object with address and seqNo deserializes to Input{address,
\* seq_no} whether or not it also carries signature or extra fields.
C9_SignatureAndExtraIgnored ==
    (ipc = "deserialized" /\ HasAddressAndSeqNo(json)) =>
        parsed = InputOk(Input_new(AddressOf(json), SeqNoOf(json)))

\* C10: for x built by Input::new, deserializing the serialization of x
\* yields x, and serializing that again yields the same JSON text.
C10_RoundTrip ==
    /\ ipc \in {"reparsed", "reserialized"} => parsed = InputOk(input)
    /\ ipc = "reserialized" => reemitted = emitted

\* A value with a non-zero sequence number has gone through the round trip.
C10_RoundTripDone ==
    /\ ipc = "reserialized"
    /\ input.seq_no = 30
    /\ input.address = "pay:sov:A"
    /\ parsed.ok

(***************************************************************************)
(* Properties of InputConfig, checked under SpecConfig.                    *)
(***************************************************************************)
HasVerOtherThanOne(j) ==
    /\ j.t = "object"
    /\ \E i \in 1 .. Len(j.entries) :
          /\ j.entries[i][1] = "ver"
          /\ j.entries[i][2].t = "number"
          /\ j.entries[i][2].v # 1

\* C11: an InputConfig whose ver is not 1 fails to deserialize, and
\* build_payment_req_handler given it as inputs_json reports
\* CommonInvalidStructure and hands no request to the callback.
C11_UnknownVerRejected ==
    (cpc \in {"deserialized", "built"} /\ HasVerOtherThanOne(cfgJson)) =>
        /\ ~cfgParsed.ok
        /\ cpc = "built" =>
              /\ payOutcome.ret = "CommonInvalidStructure"
              /\ \A i \in 1 .. Len(payOutcome.cbs) : payOutcome.cbs[i].ptr = NullPtr

(***************************************************************************)
(* Further properties of the Input value model, checked under SpecInput.   *)
(***************************************************************************)
\* The payload of an object or of a TXO wire string.
IsPayload(j) == j.t = "object" \/ (j.t = "string" /\ j.wire)

\* The payload has no field `missing`, exactly one well-typed field
\* `present`, and any further fields are `signature` or `extra`.
LacksOnly(j, missing, present) ==
    /\ IsPayload(j)
    /\ KeyIndexes(j.entries, missing) = {}
    /\ Cardinality(KeyIndexes(j.entries, present)) = 1
    /\ \A i \in DOMAIN j.entries :
          /\ j.entries[i][1] \in {present, "signature", "extra"}
          /\ j.entries[i][1] = "address" => j.entries[i][2].t = "string"
          /\ j.entries[i][1] = "seqNo" =>
                (j.entries[i][2].t = "number" /\ j.entries[i][2].v >= 0)

\* The message of the error contains "missing field `f`".
MissingField(r, f) == ~r.ok /\ r.err = "missing field" /\ r.field = f

\* C12: deserializing an Input from a TXO string or an object that lacks
\* seqNo fails with a message containing "missing field `seqNo`", and from
\* one that lacks address with "missing field `address`".
C12_MissingFieldIdentified ==
    ipc = "deserialized" =>
        /\ LacksOnly(json, "seqNo", "address") => MissingField(parsed, "seqNo")
        /\ LacksOnly(json, "address", "seqNo") => MissingField(parsed, "address")

TxoWireForms == {TXO_to_libindy_string(Input_new(a, n)) : a \in Addresses, n \in SeqNos}

C14_MutexFreeWhileContinuationRuns ==
    \A t \in RegThreads : tpc[t] = "ran" => mutex.holder # t

(***************************************************************************)
(* Properties of sovtoken_init and its callback, checked under SpecInit.   *)
(***************************************************************************)
\* C15: when the receiver of a closure's channel has been dropped before
\* the host calls the closure back, the continuation runs to its end: the
\* callback neither panics nor aborts, and the registry mutex is left
\* unpoisoned for later registrations and callbacks.
C15_DroppedReceiverTolerated ==
    (hloc.closure # 0 /\ receiver[hloc.closure] = "dropped" /\ hpc # "in_callback") =>
        /\ hpc \notin {"panicked", "aborted"}
        /\ ~mutex.poisoned

Builders ==
    {"build_mint_txn", "build_payment_req", "build_set_txn_fees",
     "build_get_txn_fees", "build_get_utxo_request"}

SomeArgInvalid == \E p \in Params(call.h) : call.args[p] \in {"bad_json", "bad_address"}

\* C17: a builder handler called with non-null arguments of which one is
\* structurally invalid JSON or an invalid address ends with
\* CommonInvalidStructure or InvalidAddress, and no request reaches the
\* callback.
C17_BuildersValidateInputs ==
    (pc \in {"returning", "returned"} /\ call.h \in Builders /\ call.cb # NullCb
        /\ ~SomeArgNull /\ SomeArgInvalid) =>
        /\ ret \in {"CommonInvalidStructure", "InvalidAddress"}
        /\ \A i \in DOMAIN cbLog : cbLog[i].ptr = NullPtr

\* The requests handed to the callback with Success.
DeliveredRequests ==
    {cbLog[i].ptr : i \in {j \in DOMAIN cbLog : cbLog[j].err = "Success"}}

\* C18: build_get_utxo_request called with an address and a submitter
\* hands the callback the envelope with that identifier and the operation
\* {type "10002", address}.
C18_GetUtxoRequestDelivered ==
    (Returned /\ call.h = "build_get_utxo_request" /\ call.cb # NullCb
        /\ AllArgsValid) =>
        /\ ret = "Success"
        /\ GetUtxoRequest_new(call.args["payment_address"], call.args["submitter_did"])
              \in DeliveredRequests

\* The handlers that end in handle_result.
C20_Handlers == {"build_set_txn_fees", "build_payment_req", "build_mint_txn"}

\* C20: in build_set_txn_fees_handler, build_payment_req_handler and
\* build_mint_txn_handler the callback is invoked at most once per call,
\* with the code the handler returns, and with a null result pointer
\* exactly when that code is not Success.
C20_CallbackMatchesReturn ==
    (pc \in {"returning", "returned"} /\ call.h \in C20_Handlers) =>
        /\ Len(cbLog) <= 1
        /\ \A i \in DOMAIN cbLog :
              /\ cbLog[i].command_handle = call.command_handle
              /\ cbLog[i].err = ret
              /\ cbLog[i].ptr = NullPtr <=> ret # "Success"

\* build_set_txn_fees_handler has refused its fees_json and told the
\* callback so.
C20_FailureReported ==
    /\ Returned
    /\ call.h = "build_set_txn_fees"
    /\ ret = "CommonInvalidStructure"
    /\ Len(cbLog) = 1

(***************************************************************************)
(* Further properties of InputConfig, checked under SpecConfig.            *)
(***************************************************************************)
\* The JSON is the object form of the Input: address, then seqNo.
IsObjectFormOf(j, x) ==
    /\ j.t = "object"
    /\ Len(j.entries) = 2
    /\ j.entries[1] = <<"address", JStr(x.address)>>
    /\ j.entries[2] = <<"seqNo", JNum(x.seq_no)>>

OthersUnchanged(h) ==
    /\ DOMAIN CALLBACKS' \ {h} = DOMAIN CALLBACKS \ {h}
    /\ \A k \in DOMAIN CALLBACKS \ {h} : CALLBACKS'[k] = CALLBACKS[k]

C22_Step ==
    \A t \in RegThreads :
        /\ (tpc[t] = "have_id" /\ tpc'[t] = "idle") =>
              /\ tloc[t].command_handle \in DOMAIN CALLBACKS'
              /\ CALLBACKS'[tloc[t].command_handle] = tloc[t].closure
              /\ OthersUnchanged(tloc[t].command_handle)
              /\ ran' = ran
        /\ (tpc[t] = "idle" /\ tpc'[t] = "in_callback") =>
              /\ tloc'[t].command_handle \notin DOMAIN CALLBACKS'
              /\ tloc'[t].closure = CALLBACKS[tloc'[t].command_handle]
              /\ OthersUnchanged(tloc'[t].command_handle)
              /\ ran' = ran
        /\ (tpc[t] = "in_callback" /\ tpc'[t] = "ran") =>
              /\ CALLBACKS' = CALLBACKS
              /\ ran' = [ran EXCEPT ![tloc[t].closure] = @ + 1]

\* C22: closure_to_cb_ec puts one entry into the map, under the handle it
\* returns, and changes no entry under another handle; a callback for
\* handle h removes only the entry of h and runs only its continuation, so
\* that every continuation registered under another handle stays present
\* and is not invoked.
C22_FrameOfRegistryOperations == [][C22_Step]_vars

\* One continuation has run while another one is still registered and has
\* not been invoked.
C22_OneRanOtherPresent ==
    \E t \in RegThreads :
        /\ tpc[t] = "ran"
        /\ ran[tloc[t].closure] = 1
        /\ DOMAIN CALLBACKS # {}
        /\ \A k \in DOMAIN CALLBACKS : k # tloc[t].command_handle /\ ran[CALLBACKS[k]] = 0

(***************************************************************************)
(* Properties of CryptoSdk, checked under SpecCrypto.                      *)
(***************************************************************************)
CreateKeyCalls == {i \in DOMAIN hostCalls : hostCalls[i].api = "indy_create_key"}

\* C23: indy_create_key and indy_create_key_async hand the host the text
\* "{ }" exactly when the seed of the config is empty and the serialized
\* config otherwise, always with the caller's wallet handle, so that for
\* one config both hand over the same JSON and wallet handle.
C23_SameConfigToHost ==
    /\ \A i \in CreateKeyCalls :
          /\ hostCalls[i].config = EmptyConfigText <=> kcfg.config.seed = ""
          /\ kcfg.config.seed # "" =>
                hostCalls[i].config = <<"{", "seed", ":", kcfg.config.seed, "}">>
          /\ hostCalls[i].wallet = kcfg.wallet_id
    /\ \A i, j \in CreateKeyCalls :
          /\ hostCalls[i].config = hostCalls[j].config
          /\ hostCalls[i].wallet = hostCalls[j].wallet

\* Both variants have called the host for a config with an empty seed.
C23_BothCalledWithEmptySeed ==
    /\ kcfg.config.seed = ""
    /\ \E i, j \in CreateKeyCalls :
          /\ hostCalls[i].by = "indy_create_key"
          /\ hostCalls[j].by = "indy_create_key_async"

=============================================================================
